---- MODULE Spec2Model ----
(***************************************************************************)
(* Lead ingestion and CRM synchronisation of webapp/app.py:                *)
(* POST /submit-email (validate, insert-or-reread, push with retries,      *)
(* stamp the sync result) run by concurrent request workers over one       *)
(* email_leads table with a unique index on email.                         *)
(*                                                                         *)
(* Strings that the code transforms (email, profile) are sequences of      *)
(* one-character strings.  Python's None and the empty string are both     *)
(* falsy where the code reads them (x or ""), and are written <<>>.        *)
(* Durations are in tenths of a second.                                    *)
(***************************************************************************)
EXTENDS Integers, Sequences, FiniteSets, TLC

\* ------------------------------------------------------------------ bounds
\* Number of requests that can be in flight at once (server workers).
NumWorkers == 2

Workers == 1..NumWorkers

\* Number of requests served in one behaviour.
MaxRequests == 2

\* ------------------------------------------------------- program constants
\* range(1, 4): three attempts.
MaxAttempts == 3

\* time.sleep(0.8 * attempt), in tenths of a second.
BackoffUnit == 8

\* resp.text[:500]
TextCap == 500

None == <<>>

\* ----------------------------------------------------------- pure helpers
Whitespace == {" "}

Upper == {"A", "B"}

\* str.lower() on one character.
lower_char(c) == CASE c = "A" -> "a" [] c = "B" -> "b" [] OTHER -> c

\* str.lower()
lower(s) == [i \in 1..Len(s) |-> lower_char(s[i])]

RECURSIVE lstrip(_)
lstrip(s) == IF s /= <<>> /\ Head(s) \in Whitespace THEN lstrip(Tail(s)) ELSE s

RECURSIVE rstrip(_)
rstrip(s) ==
    IF s /= <<>> /\ s[Len(s)] \in Whitespace
    THEN rstrip(SubSeq(s, 1, Len(s) - 1))
    ELSE s

\* str.strip()
strip(s) == rstrip(lstrip(s))

\* dict.get(key): None when the key is absent.
get(d, key) == IF key \in DOMAIN d THEN d[key] ELSE None

\* [^@\s]
NotAtNotSpace(c) == c /= "@" /\ c \notin Whitespace

\* [^@\s]+ on s[from..to]
Run(s, from, to) == from <= to /\ \A i \in from..to : NotAtNotSpace(s[i])

\* A pattern without the \.[^@\s]+ part: ^[^@\s]+@[^@\s]+$
EMAIL_RE_nodot(s) ==
    \E i \in 1..Len(s) :
        s[i] = "@" /\ Run(s, 1, i - 1) /\ Run(s, i + 1, Len(s))

\* EMAIL_RE.match(s) for ^[^@\s]+@[^@\s]+\.[^@\s]+$ : some "@" at i and some
\* "." at j split s into three non-empty runs of [^@\s].
EMAIL_RE(s) ==
    \E i \in 1..Len(s) : \E j \in 1..Len(s) :
        /\ i < j
        /\ s[i] = "@"
        /\ s[j] = "."
        /\ Run(s, 1, i - 1)
        /\ Run(s, i + 1, j - 1)
        /\ Run(s, j + 1, Len(s))

\* ipaddress.ip_address accepts these.
ValidIPs == {"10.0.0.1", "10.0.0.2"}

\* _client_ip(): the X-Forwarded-For header is modelled as its comma-split,
\* stripped entries; an absent remote_addr is "".
client_ip(headers, remote_addr) ==
    LET xff == get(headers, "X-Forwarded-For")
        ip  == IF xff /= None THEN xff[1]
               ELSE IF remote_addr /= "" THEN remote_addr ELSE "-"
    IN  IF ip \in ValidIPs THEN ip ELSE "-"

\* request.headers.get("User-Agent", "-")
user_agent(headers) ==
    IF "User-Agent" \in DOMAIN headers THEN headers["User-Agent"] ELSE "-"

\* A normalisation that trims and keeps the case.
norm_email_keepcase(data) == strip(get(data, "email"))

\* (data.get("email") or "").strip().lower()
norm_email(data) == lower(strip(get(data, "email")))

\* (data.get("profile") or "").strip() or None
norm_profile(data) == strip(get(data, "profile"))

\* ------------------------------------------------------------------ inputs
\* Requests the boundary can deliver: a JSON body (unparsable, or a dict
\* with optional "email" / "profile"), headers and the peer address.
Request(json, data, headers) ==
    [json |-> json, remote_addr |-> "10.0.0.1", data |-> data, headers |-> headers]

SubFirst ==
    Request(TRUE, [email |-> <<"a", "@", "b", ".", "c">>, profile |-> <<"p">>],
            "User-Agent" :> "ua1")

\* The email of SubFirst in another case and padded, with another profile,
\* user agent and forwarded address.
SubSameEmail ==
    Request(TRUE, [email |-> <<" ", "A", "@", "B", ".", "c", " ">>,
                   profile |-> <<" ", "q", " ">>],
            ("User-Agent" :> "ua2")
                @@ ("X-Forwarded-For" :> <<"10.0.0.2", "10.0.0.1">>))

SubOther ==
    Request(TRUE, [email |-> <<"b", "@", "a", ".", "c">>],
            "X-Forwarded-For" :> <<"bogus">>)

SubMissing == Request(TRUE, <<>>, "User-Agent" :> "ua1")

SubBlank ==
    Request(TRUE, [email |-> <<" ", " ">>, profile |-> <<"p">>], "User-Agent" :> "ua1")

SubNoDot ==
    Request(TRUE, [email |-> <<"a", "@", "b">>, profile |-> <<"p">>],
            "User-Agent" :> "ua1")

SubInnerBlank ==
    Request(TRUE, [email |-> <<"a", " ", "b", "@", "a", ".", "c">>, profile |-> <<"p">>],
            "User-Agent" :> "ua1")

SubTwoAt ==
    Request(TRUE, [email |-> <<"a", "@", "b", "@", "a", ".", "c">>, profile |-> <<"p">>],
            "User-Agent" :> "ua1")

SubEmptyLabel ==
    Request(TRUE, [email |-> <<"a", "@", ".", "c">>, profile |-> <<"p">>],
            "User-Agent" :> "ua1")

SubBadJson == Request(FALSE, <<>>, "User-Agent" :> "ua1")

Submissions ==
    {SubFirst, SubSameEmail, SubOther, SubMissing, SubBlank, SubNoDot,
     SubInnerBlank, SubTwoAt, SubEmptyLabel, SubBadJson}

\* The requests used where requests run concurrently.
RaceSubmissions == {SubFirst, SubSameEmail, SubOther, SubMissing, SubNoDot}

\* GET /healthz, served while the storage is reachable (db_up) or not.
HealthRequest(db_up) == [path |-> "/healthz", json |-> FALSE, db_up |-> db_up]

\* What one requests.post can produce: a response (status_code, len(text))
\* or a requests.RequestException (len(str(e))).
AttemptResults == {
    [kind |-> "http", status_code |-> 200, text |-> 2],
    [kind |-> "http", status_code |-> 409, text |-> 2],
    [kind |-> "http", status_code |-> 500, text |-> 600],
    [kind |-> "exc", text |-> 700] }

\* The CRM results used where requests run concurrently.
RaceResults == {r \in AttemptResults : r.kind = "http" /\ r.status_code \in {200, 500}}

\* SYSTEMEIO_TOKEN / SYSTEMEIO_TAG_ID as read from the environment.
Configs == [token : {"", "tok"}, tag_id : {"", "42"}]

\* ------------------------------------------------------------------- state
VARIABLES
    nreq,         \* requests received so far
    cfg,          \* SYSTEMEIO_TOKEN, SYSTEMEIO_TAG_ID
    leads,        \* table email_leads: row id |-> row
    pc,           \* per worker: position in submit_email
    input,        \* per worker: the request being served
    req,          \* per worker: email, profile, ua, ip locals
    lead,         \* per worker: the session's EmailLead object
    created,      \* per worker: this request's INSERT committed
    attempt,      \* per worker: loop variable of push_to_systemeio
    last_error,   \* per worker: last_error of push_to_systemeio
    seen,         \* per worker: results of the requests.post calls made
    sleeps,       \* per worker: durations of the time.sleep calls made
    result,       \* per worker: (ok, status, err) returned by the push
    resp          \* per worker: the HTTP response

vars == <<nreq, cfg, leads, pc, input, req, lead, created, attempt, last_error,
          seen, sleeps, result, resp>>

pushVars == <<attempt, last_error, seen, sleeps, result>>

\* EmailLead(email=…, profile=…, source_ip=…, user_agent=…) as inserted:
\* id from the sequence, ts_utc and pushed_to_systemeio from their defaults.
EmailLead(id, r) ==
    [id |-> id, ts_utc |-> id, email |-> r.email, profile |-> r.profile,
     source_ip |-> r.ip, user_agent |-> r.ua,
     pushed_to_systemeio |-> FALSE, systemeio_status |-> None,
     systemeio_error |-> None]

\* The session's object for row id with its attributes expired (after a
\* commit): no loaded value to compare a later assignment with.
Expired(id) ==
    [id |-> id, loaded |-> FALSE, pushed_to_systemeio |-> FALSE,
     systemeio_status |-> None, systemeio_error |-> None]

\* Rows whose email column equals email (the unique index lookup).
filter_by(email) == {i \in DOMAIN leads : leads[i].email = email}

\* A column declared without unique=True.
unique_off(email) == FALSE

\* email = db.Column(..., unique=True): the INSERT of email violates the index.
unique_violation(email) == \E i \in DOMAIN leads : leads[i].email = email

Init ==
    /\ nreq = 0
    /\ cfg \in Configs
    /\ leads = <<>>
    /\ pc = [w \in Workers |-> "idle"]
    /\ input = [w \in Workers |-> None]
    /\ req = [w \in Workers |-> None]
    /\ lead = [w \in Workers |-> None]
    /\ created = [w \in Workers |-> FALSE]
    /\ attempt = [w \in Workers |-> 0]
    /\ last_error = [w \in Workers |-> None]
    /\ seen = [w \in Workers |-> <<>>]
    /\ sleeps = [w \in Workers |-> <<>>]
    /\ result = [w \in Workers |-> None]
    /\ resp = [w \in Workers |-> None]

\* ---------------------------------------------------------------- responses
\* jsonify({"ok": True})
RespOk == [code |-> 200, ok |-> TRUE]

\* jsonify({"ok": False, "error": e}), 400
RespInvalid(e) == [code |-> 400, ok |-> FALSE, error |-> e]

\* abort(400, description="invalid_json")
RespBadJson == [code |-> 400, description |-> "invalid_json"]

\* jsonify({"status": "ok", ..., "db": db_status})
RespHealth(db_status) == [code |-> 200, status |-> "ok", db |-> db_status]

\* An exception exc the handler does not catch: Flask logs it and answers 500.
RespInternalError(exc) == [code |-> 500, exc |-> exc]

\* ----------------------------------------------------------------- push
\* 200 <= resp.status_code < 300 or resp.status_code == 409
Delivered(r) ==
    /\ r.kind = "http"
    /\ ((200 <= r.status_code /\ r.status_code < 300) \/ r.status_code = 409)

Min(a, b) == IF a <= b THEN a ELSE b

\* last_error after a failed attempt: f"HTTP {code}: {text[:500]}..." as
\* <<"HTTP", code, len(text[:500]) + len("...")>>, str(e) as <<"exc", len>>.
ErrorOf(r) ==
    IF r.kind = "http"
    THEN <<"HTTP", r.status_code, Min(r.text, TextCap) + 3>>
    ELSE <<"exc", r.text>>

\* Python truthiness of last_error (None and "" are falsy).
Truthy(e) == e /= None /\ ~(e[1] = "exc" /\ e[2] = 0)

\* A loop that runs once more: range(1, 5).
in_range_one_more(a) == a <= MaxAttempts

\* for attempt in range(1, 4): the loop goes on after iteration a.
in_range(a) == a < MaxAttempts

\* A constant delay: time.sleep(0.8).
backoff_flat(a) == BackoffUnit

\* time.sleep(0.8 * attempt)
backoff(a) == BackoffUnit * a

\* A guard that forgets the tag: if not SYSTEMEIO_TOKEN.
Configured_token_only == cfg.token /= ""

\* if not (SYSTEMEIO_TOKEN and tag_id)
Configured == cfg.token /= "" /\ cfg.tag_id /= ""

Skipped ==
    [ok |-> FALSE, status |-> <<"skipped">>,
     err |-> <<"SYSTEMEIO_TOKEN/TAG_ID manquants">>]

\* A push whose loop counter is one module-level variable.
push_enter_global(w) ==
    IF ~Configured
    THEN /\ pc' = [pc EXCEPT ![w] = "commit"]
         /\ result' = [result EXCEPT ![w] = Skipped]
         /\ UNCHANGED <<attempt, last_error>>
    ELSE /\ pc' = [pc EXCEPT ![w] = "post"]
         /\ attempt' = [v \in Workers |-> 1]
         /\ last_error' = [last_error EXCEPT ![w] = None]
         /\ UNCHANGED result

\* Entry of push_to_systemeio for worker w, once its lead is in the session:
\* the configuration guard, else the loop starts at attempt 1.
push_enter(w) ==
    IF ~Configured
    THEN /\ pc' = [pc EXCEPT ![w] = "commit"]
         /\ result' = [result EXCEPT ![w] = Skipped]
         /\ UNCHANGED <<attempt, last_error>>
    ELSE /\ pc' = [pc EXCEPT ![w] = "post"]
         /\ attempt' = [attempt EXCEPT ![w] = 1]
         /\ last_error' = [last_error EXCEPT ![w] = None]
         /\ UNCHANGED result

\* ---------------------------------------------------------------- actions
\* The two validation tests in the other order.
submit_email_validate_swapped(w, s) ==
    /\ pc[w] = "idle"
    /\ \A v \in 1..(w - 1) : pc[v] /= "idle"
    /\ nreq < MaxRequests
    /\ nreq' = nreq + 1
    /\ input' = [input EXCEPT ![w] = s]
    /\ IF ~s.json
       THEN /\ resp' = [resp EXCEPT ![w] = RespBadJson]
            /\ pc' = [pc EXCEPT ![w] = "done"]
            /\ UNCHANGED req
       ELSE LET email   == norm_email(s.data)
                profile == norm_profile(s.data)
                ua      == user_agent(s.headers)
                ip      == client_ip(s.headers, s.remote_addr)
            IN  /\ req' = [req EXCEPT ![w] =
                        [email |-> email, profile |-> profile,
                         ua |-> ua, ip |-> ip]]
                /\ IF ~EMAIL_RE(email)
                   THEN /\ resp' = [resp EXCEPT ![w] = RespInvalid("email_invalid")]
                        /\ pc' = [pc EXCEPT ![w] = "done"]
                   ELSE IF email = <<>>
                   THEN /\ resp' = [resp EXCEPT ![w] = RespInvalid("email_required")]
                        /\ pc' = [pc EXCEPT ![w] = "done"]
                   ELSE /\ pc' = [pc EXCEPT ![w] = "insert"]
                        /\ UNCHANGED resp
    /\ UNCHANGED <<cfg, leads, lead, created, pushVars>>

\* submit_email up to the validation: parse, normalise, validate.  A request
\* is handed to the first idle worker.
submit_email_validate(w, s) ==
    /\ pc[w] = "idle"
    /\ \A v \in 1..(w - 1) : pc[v] /= "idle"
    /\ nreq < MaxRequests
    /\ nreq' = nreq + 1
    /\ input' = [input EXCEPT ![w] = s]
    /\ IF ~s.json
       THEN /\ resp' = [resp EXCEPT ![w] = RespBadJson]
            /\ pc' = [pc EXCEPT ![w] = "done"]
            /\ UNCHANGED req
       ELSE LET email   == norm_email(s.data)
                profile == norm_profile(s.data)
                ua      == user_agent(s.headers)
                ip      == client_ip(s.headers, s.remote_addr)
            IN  /\ req' = [req EXCEPT ![w] =
                        [email |-> email, profile |-> profile,
                         ua |-> ua, ip |-> ip]]
                /\ IF email = <<>>
                   THEN /\ resp' = [resp EXCEPT ![w] = RespInvalid("email_required")]
                        /\ pc' = [pc EXCEPT ![w] = "done"]
                   ELSE IF ~EMAIL_RE(email)
                   THEN /\ resp' = [resp EXCEPT ![w] = RespInvalid("email_invalid")]
                        /\ pc' = [pc EXCEPT ![w] = "done"]
                   ELSE /\ pc' = [pc EXCEPT ![w] = "insert"]
                        /\ UNCHANGED resp
    /\ UNCHANGED <<cfg, leads, lead, created, pushVars>>

\* A handler that swallows the storage error and goes on to the push.
submit_email_insert_swallow(w) ==
    /\ pc[w] = "insert"
    /\ \/ /\ ~unique_violation(req[w].email)
          /\ leads' = Append(leads, EmailLead(Len(leads) + 1, req[w]))
          /\ lead' = [lead EXCEPT ![w] = Expired(Len(leads) + 1)]
          /\ created' = [created EXCEPT ![w] = TRUE]
          /\ push_enter(w)
          /\ UNCHANGED <<resp, seen, sleeps>>
       \/ /\ unique_violation(req[w].email)
          /\ pc' = [pc EXCEPT ![w] = "reread"]
          /\ UNCHANGED <<leads, lead, created, resp, pushVars>>
       \/ /\ push_enter(w)
          /\ UNCHANGED <<leads, lead, created, resp, seen, sleeps>>
    /\ UNCHANGED <<nreq, cfg, input, req>>

\* The INSERT without the except IntegrityError clause.
submit_email_insert_nocatch(w) ==
    /\ pc[w] = "insert"
    /\ \/ /\ ~unique_violation(req[w].email)
          /\ leads' = Append(leads, EmailLead(Len(leads) + 1, req[w]))
          /\ lead' = [lead EXCEPT ![w] = Expired(Len(leads) + 1)]
          /\ created' = [created EXCEPT ![w] = TRUE]
          /\ push_enter(w)
          /\ UNCHANGED <<resp, seen, sleeps>>
       \/ /\ unique_violation(req[w].email)
          /\ resp' = [resp EXCEPT ![w] = RespInternalError("IntegrityError")]
          /\ pc' = [pc EXCEPT ![w] = "done"]
          /\ UNCHANGED <<leads, lead, created, pushVars>>
       \/ /\ resp' = [resp EXCEPT ![w] = RespInternalError("OperationalError")]
          /\ pc' = [pc EXCEPT ![w] = "done"]
          /\ UNCHANGED <<leads, lead, created, pushVars>>
    /\ UNCHANGED <<nreq, cfg, input, req>>

\* db.session.add(lead); db.session.commit(): the INSERT commits, or the
\* unique index raises IntegrityError (rollback, then the re-read), or the
\* storage raises OperationalError, which nothing catches.
submit_email_insert(w) ==
    /\ pc[w] = "insert"
    /\ \/ /\ ~unique_violation(req[w].email)
          /\ leads' = Append(leads, EmailLead(Len(leads) + 1, req[w]))
          /\ lead' = [lead EXCEPT ![w] =
                 Expired(Len(leads) + 1)]
          /\ created' = [created EXCEPT ![w] = TRUE]
          /\ push_enter(w)
          /\ UNCHANGED <<resp, seen, sleeps>>
       \/ /\ unique_violation(req[w].email)
          /\ pc' = [pc EXCEPT ![w] = "reread"]
          /\ UNCHANGED <<leads, lead, created, resp, pushVars>>
       \/ /\ resp' = [resp EXCEPT ![w] = RespInternalError("OperationalError")]
          /\ pc' = [pc EXCEPT ![w] = "done"]
          /\ UNCHANGED <<leads, lead, created, pushVars>>
    /\ UNCHANGED <<nreq, cfg, input, req>>

\* lead = select(EmailLead).filter_by(email=email).scalar_one(): the session
\* now holds the row as loaded at this moment.
submit_email_reread(w) ==
    /\ pc[w] = "reread"
    /\ \/ /\ \E i \in filter_by(req[w].email) :
                lead' = [lead EXCEPT ![w] =
                    [id |-> i, loaded |-> TRUE,
                     pushed_to_systemeio |-> leads[i].pushed_to_systemeio,
                     systemeio_status |-> leads[i].systemeio_status,
                     systemeio_error |-> leads[i].systemeio_error]]
          /\ push_enter(w)
          /\ UNCHANGED <<resp, seen, sleeps>>
       \/ /\ resp' = [resp EXCEPT ![w] = RespInternalError("OperationalError")]
          /\ pc' = [pc EXCEPT ![w] = "done"]
          /\ UNCHANGED <<lead, pushVars>>
    /\ UNCHANGED <<nreq, cfg, leads, input, req, created>>

\* One iteration of the loop of push_to_systemeio: requests.post, then
\* either the return on 2xx/409 or last_error and time.sleep(0.8 * attempt);
\* after the iteration of attempt 3 the loop ends and the error is returned.
push_to_systemeio_attempt(w, r) ==
    /\ pc[w] = "post"
    /\ seen' = [seen EXCEPT ![w] = Append(@, r)]
    /\ IF Delivered(r)
       THEN /\ result' = [result EXCEPT ![w] =
                   [ok |-> TRUE, status |-> <<"HTTP", r.status_code>>,
                    err |-> None]]
            /\ pc' = [pc EXCEPT ![w] = "commit"]
            /\ UNCHANGED <<attempt, last_error, sleeps>>
       ELSE /\ last_error' = [last_error EXCEPT ![w] = ErrorOf(r)]
            /\ sleeps' = [sleeps EXCEPT ![w] = Append(@, backoff(attempt[w]))]
            /\ IF in_range(attempt[w])
               THEN /\ attempt' = [attempt EXCEPT ![w] = @ + 1]
                    /\ UNCHANGED <<pc, result>>
               ELSE /\ result' = [result EXCEPT ![w] =
                           [ok |-> FALSE, status |-> <<"error">>,
                            err |-> IF Truthy(ErrorOf(r)) THEN ErrorOf(r)
                                    ELSE <<"unknown_api_error">>]]
                    /\ pc' = [pc EXCEPT ![w] = "commit"]
                    /\ UNCHANGED attempt
    /\ UNCHANGED <<nreq, cfg, leads, input, req, lead, created, resp>>

\* An UPDATE that also refreshes ts_utc (a column with onupdate).
flush_onupdate(row, o, res) ==
    [row EXCEPT !.ts_utc = @ + 1,
                !.pushed_to_systemeio = res.ok,
                !.systemeio_status = res.status,
                !.systemeio_error = res.err]

\* A commit that loses the UPDATE.
flush_lost(row, o, res) == row

\* The UPDATE that the session's flush emits for object o set to the push
\* result res: a column is written when its attribute was not loaded (the
\* object expired at the INSERT's commit) or differs from the loaded value.
flush(row, o, res) ==
    [row EXCEPT
        !.pushed_to_systemeio =
            IF ~o.loaded \/ o.pushed_to_systemeio /= res.ok THEN res.ok ELSE @,
        !.systemeio_status =
            IF ~o.loaded \/ o.systemeio_status /= res.status THEN res.status ELSE @,
        !.systemeio_error =
            IF ~o.loaded \/ o.systemeio_error /= res.err THEN res.err ELSE @]

\* The handler answering with the push outcome instead of a constant ok.
submit_email_commit_reflects(w) ==
    /\ pc[w] = "commit"
    /\ \/ /\ leads' = [leads EXCEPT ![lead[w].id] = flush(@, lead[w], result[w])]
          /\ resp' = [resp EXCEPT ![w] =
                 [code |-> IF result[w].ok THEN 200 ELSE 502, ok |-> result[w].ok]]
       \/ /\ resp' = [resp EXCEPT ![w] = RespInternalError("OperationalError")]
          /\ UNCHANGED leads
    /\ lead' = [lead EXCEPT ![w] = Expired(@.id)]
    /\ pc' = [pc EXCEPT ![w] = "done"]
    /\ UNCHANGED <<nreq, cfg, input, req, created, pushVars>>

\* lead.pushed_to_systemeio = bool(ok); lead.systemeio_status = status;
\* lead.systemeio_error = err; db.session.commit(); return {"ok": True}.
submit_email_commit(w) ==
    /\ pc[w] = "commit"
    /\ \/ /\ leads' = [leads EXCEPT ![lead[w].id] = flush(@, lead[w], result[w])]
          /\ resp' = [resp EXCEPT ![w] = RespOk]
       \/ /\ resp' = [resp EXCEPT ![w] = RespInternalError("OperationalError")]
          /\ UNCHANGED leads
    /\ lead' = [lead EXCEPT ![w] = Expired(@.id)]
    /\ pc' = [pc EXCEPT ![w] = "done"]
    /\ UNCHANGED <<nreq, cfg, input, req, created, pushVars>>

\* The response is sent; the worker's locals and session are discarded.
request_end(w) ==
    /\ pc[w] = "done"
    /\ pc' = [pc EXCEPT ![w] = "idle"]
    /\ input' = [input EXCEPT ![w] = None]
    /\ req' = [req EXCEPT ![w] = None]
    /\ lead' = [lead EXCEPT ![w] = None]
    /\ created' = [created EXCEPT ![w] = FALSE]
    /\ attempt' = [attempt EXCEPT ![w] = 0]
    /\ last_error' = [last_error EXCEPT ![w] = None]
    /\ seen' = [seen EXCEPT ![w] = <<>>]
    /\ sleeps' = [sleeps EXCEPT ![w] = <<>>]
    /\ result' = [result EXCEPT ![w] = None]
    /\ resp' = [resp EXCEPT ![w] = None]
    /\ UNCHANGED <<nreq, cfg, leads>>

\* healthz without the except OperationalError clause.
healthz_nocatch(w, db_up) ==
    /\ pc[w] = "idle"
    /\ \A v \in 1..(w - 1) : pc[v] /= "idle"
    /\ nreq < MaxRequests
    /\ nreq' = nreq + 1
    /\ input' = [input EXCEPT ![w] = HealthRequest(db_up)]
    /\ resp' = [resp EXCEPT ![w] =
           IF db_up THEN RespHealth("connected")
           ELSE RespInternalError("OperationalError")]
    /\ pc' = [pc EXCEPT ![w] = "done"]
    /\ UNCHANGED <<cfg, leads, req, lead, created, pushVars>>

\* healthz(): db_status = "connected"; the count query runs, or raises
\* OperationalError and db_status = "disconnected"; the answer is 200 either
\* way.  The query reads and writes nothing.
healthz(w, db_up) ==
    /\ pc[w] = "idle"
    /\ \A v \in 1..(w - 1) : pc[v] /= "idle"
    /\ nreq < MaxRequests
    /\ nreq' = nreq + 1
    /\ input' = [input EXCEPT ![w] = HealthRequest(db_up)]
    /\ resp' = [resp EXCEPT ![w] =
           RespHealth(IF db_up THEN "connected" ELSE "disconnected")]
    /\ pc' = [pc EXCEPT ![w] = "done"]
    /\ UNCHANGED <<cfg, leads, req, lead, created, pushVars>>

\* The server with workers W, receiving requests of S, against a CRM that
\* answers from R.
Serve(W, S, R) ==
    \E w \in W :
        \/ \E s \in S : submit_email_validate(w, s)
        \/ submit_email_insert(w)
        \/ submit_email_reread(w)
        \/ \E r \in R : push_to_systemeio_attempt(w, r)
        \/ submit_email_commit(w)
        \/ request_end(w)

\* Concurrent requests of RaceSubmissions; the CRM delivers or answers 500.
Next == Serve(Workers, RaceSubmissions, RaceResults)

Spec == Init /\ [][Next]_vars

\* The steps of the request that worker w is serving.
Work(w) ==
    \/ submit_email_insert(w)
    \/ submit_email_reread(w)
    \/ \E r \in RaceResults : push_to_systemeio_attempt(w, r)
    \/ submit_email_commit(w)

\* Concurrent requests that all carry the same email: the contended row.
NextLive == Serve(Workers, {SubSameEmail}, RaceResults)

\* Every request in flight keeps running: its thread is scheduled, the
\* storage and the CRM (bounded by the request timeout) answer.
SpecLive == Init /\ [][NextLive]_vars /\ \A w \in Workers : WF_vars(Work(w))

\* One request at a time, any of Submissions or a health check; the CRM
\* answers anything of AttemptResults.
NextSeq ==
    \/ Serve({1}, Submissions, AttemptResults)
    \/ \E db_up \in BOOLEAN : healthz(1, db_up)

SpecSeq == Init /\ [][NextSeq]_vars

\* ------------------------------------------------------------- properties
\* The statements below are written against the state only, without the
\* operators the actions are built from.

\* A string in trimmed, lower-cased form.
IsNormalForm(e) ==
    /\ e /= <<>>
    /\ e[1] /= " "
    /\ e[Len(e)] /= " "
    /\ \A i \in 1..Len(e) : e[i] \notin {"A", "B"}

\* Worker w's request has its Lead stored (inserted or re-read) and has not
\* failed since.
HasLead(w) ==
    \/ pc[w] \in {"post", "commit"}
    \/ pc[w] = "done" /\ resp[w] = [code |-> 200, ok |-> TRUE]

\* C1: the table holds at most one Lead per normalized email, every stored
\* email is in normalized form, and every request whose Lead is stored finds
\* exactly one row for its email (so two distinct emails are two rows and
\* one email submitted again is one row).
C1_OneLeadPerEmail ==
    /\ \A i, j \in DOMAIN leads : leads[i].email = leads[j].email => i = j
    /\ \A i \in DOMAIN leads : IsNormalForm(leads[i].email) /\ leads[i].id = i
    /\ \A w \in Workers :
          HasLead(w) =>
             Cardinality({i \in DOMAIN leads : leads[i].email = req[w].email}) = 1
    /\ \A w1, w2 \in Workers :
          HasLead(w1) /\ HasLead(w2) /\ req[w1].email /= req[w2].email
             => Len(leads) >= 2

\* Two requests whose raw emails differ in case and padding were both
\* accepted: one row.
C1_Witness ==
    /\ Len(leads) = 1
    /\ \E w1, w2 \in Workers :
          /\ w1 /= w2
          /\ pc[w1] = "done" /\ resp[w1] = [code |-> 200, ok |-> TRUE]
          /\ pc[w2] = "done" /\ resp[w2] = [code |-> 200, ok |-> TRUE]
          /\ req[w1].email = req[w2].email
          /\ input[w1].data.email /= input[w2].data.email

\* C2: of two requests in flight for the same email at most one has inserted,
\* both hold the same single row, no request ends on an uncaught
\* IntegrityError (a 500 comes from the storage being unreachable only), and
\* a request that answered ok:true has pushed (its push returned a result,
\* after at least one call when the CRM is configured).
C2_RaceLoserRereads ==
    /\ \A w1, w2 \in Workers :
          (w1 /= w2 /\ HasLead(w1) /\ HasLead(w2) /\ req[w1].email = req[w2].email)
             => /\ lead[w1].id = lead[w2].id
                /\ ~(created[w1] /\ created[w2])
                /\ leads[lead[w1].id].email = req[w1].email
    /\ \A w \in Workers :
          /\ (pc[w] = "done" /\ resp[w].code = 500) => resp[w].exc = "OperationalError"
          /\ (pc[w] = "done" /\ resp[w] = [code |-> 200, ok |-> TRUE])
                => /\ result[w] /= <<>>
                   /\ (cfg.token /= "" /\ cfg.tag_id /= "") => Len(seen[w]) >= 1

\* Both requests of a race answered ok:true: one inserted, the other lost the
\* INSERT while the first was in flight, and both pushed for the same row.
C2_Witness ==
    \E w1, w2 \in Workers :
        /\ w1 /= w2
        /\ pc[w1] = "done" /\ resp[w1] = [code |-> 200, ok |-> TRUE]
        /\ pc[w2] = "done" /\ resp[w2] = [code |-> 200, ok |-> TRUE]
        /\ req[w1].email = req[w2].email
        /\ created[w1] /\ ~created[w2]
        /\ lead[w1].id = lead[w2].id
        /\ Len(leads) = 1
        /\ Len(seen[w1]) >= 1 /\ Len(seen[w2]) >= 1

\* C3: a request that re-used an existing Lead (no INSERT of its own) and
\* answered ok:true leaves exactly one row for its email, and that row's
\* profile, source_ip and user_agent are those of this request.
C3_ResubmitOverwrites ==
    \A w \in Workers :
        (pc[w] = "done" /\ resp[w] = [code |-> 200, ok |-> TRUE] /\ ~created[w])
           => /\ Cardinality({i \in DOMAIN leads : leads[i].email = req[w].email}) = 1
              /\ leads[lead[w].id].profile = req[w].profile
              /\ leads[lead[w].id].source_ip = req[w].ip
              /\ leads[lead[w].id].user_agent = req[w].ua

\* The raw email of a request body (absent counts as empty).
RawEmail(s) == IF "email" \in DOMAIN s.data THEN s.data.email ELSE <<>>

\* Empty after trimming: nothing but blanks.
IsBlank(e) == \A i \in 1..Len(e) : e[i] = " "

\* The text of e between its first and last non-blank characters.
Trimmed(e) ==
    LET ix == {i \in 1..Len(e) : e[i] /= " "}
        lo == CHOOSE i \in ix : \A k \in ix : i <= k
        hi == CHOOSE i \in ix : \A k \in ix : i >= k
    IN  [i \in 1..(hi - lo + 1) |-> e[lo + i - 1]]

\* The syntax check: no blank, a single "@" that is not first, and after it
\* a "." with at least one character on each side.
SyntaxOk(e) ==
    /\ \A i \in 1..Len(e) : e[i] /= " "
    /\ Cardinality({i \in 1..Len(e) : e[i] = "@"}) = 1
    /\ LET at == CHOOSE i \in 1..Len(e) : e[i] = "@"
       IN  /\ at > 1
           /\ \E j \in (at + 2)..(Len(e) - 1) : e[j] = "."

\* A parsed body whose email the validation accepts.
GoodEmail(s) == ~IsBlank(RawEmail(s)) /\ SyntaxOk(Trimmed(RawEmail(s)))

\* C4: a request whose email is empty after trimming or fails the syntax
\* check is answered in the validating step with ok:false and status 400,
\* that step changes neither the table nor any worker's CRM calls, and the
\* request never inserts or calls the CRM.
C4_InvalidLeavesStore ==
    /\ [][\A w \in Workers :
            (pc[w] = "idle" /\ pc'[w] /= "idle" /\ input'[w].json
                /\ ~GoodEmail(input'[w]))
               => /\ pc'[w] = "done"
                  /\ resp'[w].code = 400
                  /\ resp'[w].ok = FALSE
                  /\ resp'[w].error \in {"email_required", "email_invalid"}
                  /\ leads' = leads
                  /\ seen' = seen]_vars
    /\ [](\A w \in Workers :
            (pc[w] /= "idle" /\ input[w].json /\ ~GoodEmail(input[w]))
               => pc[w] = "done" /\ seen[w] = <<>> /\ ~created[w])

\* With a Lead stored, a later request was refused as email_invalid.
C4_Witness ==
    /\ Len(leads) = 1
    /\ \E w \in Workers :
          /\ pc[w] = "done"
          /\ resp[w] = [code |-> 400, ok |-> FALSE, error |-> "email_invalid"]

\* C5: a request with a valid email that has ended answered exactly
\* {ok: true} with status 200, whatever its push returned, unless the
\* storage was unreachable (OperationalError).
C5_OkWhateverCrm ==
    \A w \in Workers :
        (pc[w] = "done" /\ input[w].json /\ GoodEmail(input[w]))
           => \/ resp[w] = [code |-> 200, ok |-> TRUE]
              \/ resp[w] = [code |-> 500, exc |-> "OperationalError"]

\* A request answered ok:true after three failed attempts, the last one a
\* transport exception.
C5_Witness ==
    \E w \in Workers :
        /\ pc[w] = "done"
        /\ resp[w] = [code |-> 200, ok |-> TRUE]
        /\ Len(seen[w]) = 3
        /\ seen[w][3].kind = "exc"
        /\ result[w].ok = FALSE

\* A 2xx status or 409.
IsDelivery(r) ==
    r.kind = "http" /\ (r.status_code \in 200..299 \/ r.status_code = 409)

\* C6: a push makes at most three calls, none after a 2xx/409, and returns
\* only after a 2xx/409 or after its third call; an HTTP failure and a
\* transport exception both advance the attempt number by one.
C6_AttemptsUntilDelivered ==
    \A w \in Workers :
        /\ Len(seen[w]) <= 3
        /\ \A k \in 1..(Len(seen[w]) - 1) : ~IsDelivery(seen[w][k])
        /\ pc[w] = "post"
              => /\ Len(seen[w]) < 3
                 /\ \A k \in 1..Len(seen[w]) : ~IsDelivery(seen[w][k])
                 /\ attempt[w] = Len(seen[w]) + 1
        /\ (result[w] /= <<>> /\ cfg.token /= "" /\ cfg.tag_id /= "")
              => /\ Len(seen[w]) >= 1
                 /\ IsDelivery(seen[w][Len(seen[w])]) \/ Len(seen[w]) = 3

\* A push that returned after a transport exception, a 500 and then a 409.
C6_Witness ==
    \E w \in Workers :
        /\ result[w] /= <<>>
        /\ Len(seen[w]) = 3
        /\ seen[w][1].kind = "exc"
        /\ seen[w][2].kind = "http" /\ seen[w][2].status_code = 500
        /\ seen[w][3].kind = "http" /\ seen[w][3].status_code = 409

\* C7: with token and tag configured, the commit of a request's sync result
\* leaves its row marked delivered (flag set, an HTTP status) if one of its
\* attempts returned 2xx/409, and marked failed (flag clear, status error)
\* otherwise.
C7_StoredStatusIsOutcome ==
    [][\A w \in Workers :
          (pc[w] = "commit" /\ pc'[w] = "done"
              /\ resp'[w] = [code |-> 200, ok |-> TRUE]
              /\ cfg.token /= "" /\ cfg.tag_id /= "")
             => LET row == leads'[lead[w].id]
                    delivered == \E k \in 1..Len(seen[w]) : IsDelivery(seen[w][k])
                IN  IF delivered
                    THEN /\ row.pushed_to_systemeio
                         /\ row.systemeio_status[1] = "HTTP"
                    ELSE /\ ~row.pushed_to_systemeio
                         /\ row.systemeio_status = <<"error">>]_vars

\* C8: without token or tag no request makes a call or sleeps; a request
\* with a valid email still gets its Lead and answers ok:true unless the
\* storage is unreachable, and the row then reads failed / skipped with the
\* skip reason.
C8_SkippedWithoutConfig ==
    (cfg.token = "" \/ cfg.tag_id = "")
       => \A w \in Workers :
             /\ seen[w] = <<>>
             /\ sleeps[w] = <<>>
             /\ (pc[w] = "done" /\ input[w].json /\ GoodEmail(input[w]))
                   => \/ resp[w] = [code |-> 500, exc |-> "OperationalError"]
                      \/ /\ resp[w] = [code |-> 200, ok |-> TRUE]
                         /\ leads[lead[w].id].email = req[w].email
                         /\ ~leads[lead[w].id].pushed_to_systemeio
                         /\ leads[lead[w].id].systemeio_status = <<"skipped">>
                         /\ leads[lead[w].id].systemeio_error
                               = <<"SYSTEMEIO_TOKEN/TAG_ID manquants">>

\* With the token set and the tag missing, a request created its Lead and
\* answered ok:true.
C8_Witness ==
    /\ cfg.token /= "" /\ cfg.tag_id = ""
    /\ \E w \in Workers :
          /\ pc[w] = "done"
          /\ resp[w] = [code |-> 200, ok |-> TRUE]
          /\ created[w]

RECURSIVE Sum(_)
Sum(q) == IF q = <<>> THEN 0 ELSE Head(q) + Sum(Tail(q))

\* C9 as stated: at most two sleeps, of 0.8 s and 1.6 s, none after the third
\* attempt, 4 s of backoff at most (durations in tenths of a second).
C9_AtMostTwoSleeps ==
    \A w \in Workers :
        /\ Len(sleeps[w]) <= 2
        /\ \A n \in 1..Len(sleeps[w]) : sleeps[w][n] = 8 * n
        /\ Sum(sleeps[w]) <= 40

\* C9 as amended: one sleep after every failed attempt n, of 0.8 x n s, the
\* third attempt included (0.8 s, 1.6 s, 2.4 s), none after a 2xx/409: three
\* sleeps and 4.8 s at most.
C9_SleepAfterEachFailure ==
    \A w \in Workers :
        /\ Len(sleeps[w]) = Cardinality({k \in 1..Len(seen[w]) : ~IsDelivery(seen[w][k])})
        /\ \A n \in 1..Len(sleeps[w]) : sleeps[w][n] = 8 * n
        /\ Len(sleeps[w]) <= 3
        /\ Sum(sleeps[w]) <= 48

\* A push that failed three times has slept 0.8 s, 1.6 s and 2.4 s before
\* it returned.
C9_Witness ==
    \E w \in Workers :
        /\ pc[w] = "commit"
        /\ ~result[w].ok
        /\ sleeps[w] = <<8, 16, 24>>

\* Worker w's Lead is in the table under its email.
LeadStored(w) ==
    /\ input[w].json
    /\ GoodEmail(input[w])
    /\ lead[w] /= <<>>
    /\ lead[w].id \in DOMAIN leads
    /\ leads[lead[w].id].email = req[w].email

\* C10: a request is in the push, has made a call or has a push result only
\* if its email passed validation and its Lead is stored; a request that
\* ends at the insert or the re-read ends with a 500, leaves the table as it
\* was and has made no call; a request that has ended does not go back to
\* the store.
C10_StoreBeforeCrm ==
    /\ [](\A w \in Workers :
            (pc[w] \in {"post", "commit"} \/ seen[w] /= <<>> \/ result[w] /= <<>>)
               => LeadStored(w))
    /\ [][\A w \in Workers :
            /\ (pc[w] \in {"insert", "reread"} /\ pc'[w] = "done")
                  => /\ resp'[w].code = 500
                     /\ leads' = leads
                     /\ seen'[w] = <<>>
                     /\ result'[w] = <<>>
            /\ pc[w] = "done" => pc'[w] \in {"done", "idle"}]_vars

\* A request with a valid email ended on a storage failure at the insert,
\* with no call made and no row in the table.
C10_Witness ==
    \E w \in Workers :
        /\ pc[w] = "done"
        /\ resp[w] = [code |-> 500, exc |-> "OperationalError"]
        /\ input[w].json /\ GoodEmail(input[w])
        /\ result[w] = <<>>
        /\ seen[w] = <<>>
        /\ leads = <<>>

\* Worker w's step is the commit of its sync result, answered ok:true.
CommitsSync(w) ==
    /\ pc[w] = "commit"
    /\ pc'[w] = "done"
    /\ resp'[w] = [code |-> 200, ok |-> TRUE]

\* The three sync columns of a row.
SyncOf(row) ==
    <<row.pushed_to_systemeio, row.systemeio_status, row.systemeio_error>>

\* C11: the sync columns of a row change only at the commit of a request's
\* sync result, and right after that commit they are the flag, status and
\* detail that this request's push returned (so the stored values are always
\* those of the push whose write committed last).
C11_LastCommitWins ==
    [][/\ \A w \in Workers :
             CommitsSync(w)
                => SyncOf(leads'[lead[w].id])
                      = <<result[w].ok, result[w].status, result[w].err>>
       /\ \A i \in DOMAIN leads :
             SyncOf(leads'[i]) /= SyncOf(leads[i])
                => \E w \in Workers : CommitsSync(w) /\ lead[w].id = i]_vars

\* C12: every row stays in the table with its id, ts_utc and email, whatever
\* step is taken; the table never shrinks.
C12_LeadIdentityStable ==
    [][/\ Len(leads') >= Len(leads)
       /\ \A i \in DOMAIN leads :
             /\ i \in DOMAIN leads'
             /\ leads'[i].id = leads[i].id
             /\ leads'[i].ts_utc = leads[i].ts_utc
             /\ leads'[i].email = leads[i].email]_vars

\* A Lead created by one request and stamped by a concurrent request for the
\* same email that did not create it: still the row it was.
C12_Witness ==
    /\ Len(leads) = 1
    /\ leads[1].id = 1 /\ leads[1].ts_utc = 1
    /\ leads[1].systemeio_status /= <<>>
    /\ \E w1, w2 \in Workers :
          /\ w1 /= w2
          /\ created[w1] /\ pc[w1] = "commit"
          /\ ~created[w2] /\ pc[w2] = "done"
          /\ resp[w2] = [code |-> 200, ok |-> TRUE]
          /\ lead[w2].id = 1

\* Lower-case of the letters the inputs use.
Fold(c) == IF c = "A" THEN "a" ELSE IF c = "B" THEN "b" ELSE c

\* The email a raw body stands for: trimmed and lower-cased ("" when blank).
Canonical(e) ==
    IF IsBlank(e) THEN <<>>
    ELSE LET t == Trimmed(e) IN [i \in 1..Len(t) |-> Fold(t[i])]

\* C13: normalising the email a request has normalised changes nothing; the
\* email a request works with is the canonical form of its raw email; an insert step of a
\* request whose canonical email is already stored adds no row; and requests
\* whose raw emails have the same canonical form hold the same row, whose
\* email is that canonical form.
C13_SameLeadUpToCaseAndPadding ==
    /\ [][\A w \in Workers :
            (pc[w] = "idle" /\ pc'[w] /= "idle" /\ input'[w].json)
               => /\ norm_email([email |-> req'[w].email]) = req'[w].email
                  /\ req'[w].email = Canonical(RawEmail(input'[w]))]_vars
    /\ [](\A w1, w2 \in Workers :
            (HasLead(w1) /\ HasLead(w2))
               => LET e1 == Canonical(RawEmail(input[w1]))
                  IN  e1 = Canonical(RawEmail(input[w2]))
                         => /\ lead[w1].id = lead[w2].id
                            /\ leads[lead[w1].id].email = e1)
    /\ [][\A w \in Workers :
            (pc[w] = "insert" /\ pc'[w] /= "insert"
                /\ \E i \in DOMAIN leads :
                      leads[i].email = Canonical(RawEmail(input[w])))
               => leads' = leads]_vars

\* A padded, upper-case spelling of a stored email was submitted: the request
\* holds the existing row and the table still has one row.
C13_Witness ==
    /\ Len(leads) = 1
    /\ \E w \in Workers :
          /\ pc[w] = "post"
          /\ ~created[w]
          /\ input[w].data.email = <<" ", "A", "@", "B", ".", "c", " ">>
          /\ leads[lead[w].id].email = <<"a", "@", "b", ".", "c">>

\* The request worker w serves is a health check.
IsHealth(x) == "path" \in DOMAIN x

\* C14: a health check ends in its own step with a 200 response that says
\* "connected" when the count query ran and "disconnected" when the storage
\* was unreachable; the worker then goes on to serve; the step leaves the
\* table as it was and the check inserts nothing and calls nothing.
C14_HealthzAlwaysAnswers ==
    /\ [](\A w \in Workers :
            (pc[w] /= "idle" /\ IsHealth(input[w]))
               => /\ pc[w] = "done"
                  /\ resp[w].code = 200
                  /\ resp[w].status = "ok"
                  /\ resp[w].db = (IF input[w].db_up THEN "connected"
                                   ELSE "disconnected")
                  /\ ~created[w] /\ lead[w] = <<>> /\ seen[w] = <<>>
                  /\ ENABLED request_end(w))
    /\ [][\A w \in Workers :
            (pc[w] = "idle" /\ pc'[w] /= "idle" /\ IsHealth(input'[w]))
               => leads' = leads]_vars

\* With a Lead stored, a health check found the storage unreachable and
\* answered "disconnected".
C14_Witness ==
    /\ Len(leads) = 1
    /\ \E w \in Workers :
          /\ pc[w] = "done"
          /\ IsHealth(input[w])
          /\ ~input[w].db_up
          /\ resp[w] = [code |-> 200, status |-> "ok", db |-> "disconnected"]

\* Worker w's request was refused with error e.
Refused(w, e) ==
    pc[w] = "done" /\ resp[w] = [code |-> 400, ok |-> FALSE, error |-> e]

\* C15: a request with a parsed body is refused as email_required exactly
\* when its email is missing or blank, as email_invalid exactly when it is
\* not blank and fails the syntax check, and is otherwise never refused.
C15_ValidationOrder ==
    \A w \in Workers :
        (pc[w] /= "idle" /\ input[w].json)
           => IF IsBlank(RawEmail(input[w]))
              THEN Refused(w, "email_required")
              ELSE IF ~SyntaxOk(Trimmed(RawEmail(input[w])))
              THEN Refused(w, "email_invalid")
              ELSE resp[w] = <<>> \/ resp[w].code /= 400

\* A whitespace-only email was refused as email_required.
C15_Witness ==
    \E w \in Workers :
        /\ input[w] /= <<>>
        /\ input[w].json
        /\ RawEmail(input[w]) = <<" ", " ">>
        /\ Refused(w, "email_required")

\* The detail of a failed attempt r, with its length as last component: an
\* HTTP failure keeps 500 characters of the body at most and adds "...".
DetailOf(r) ==
    IF r.kind = "http"
    THEN <<"HTTP", r.status_code, (IF r.text < 500 THEN r.text ELSE 500) + 3>>
    ELSE <<"exc", r.text>>

\* Characters of a stored detail ("HTTP ddd: " is 10 characters).
DetailLen(e) == IF e[1] = "HTTP" THEN 10 + e[3] ELSE e[2]

\* C16: a push that failed three times returns the detail of its third
\* attempt, of 513 characters at most (HTTP failure or transport exception
\* alike), and that is the detail stored when the request has answered.
C16_LastErrorBounded ==
    \A w \in Workers :
        (result[w] /= <<>> /\ Len(seen[w]) = 3 /\ ~IsDelivery(seen[w][3]))
           => /\ result[w].err = DetailOf(seen[w][3])
              /\ DetailLen(result[w].err) <= 513
              /\ (pc[w] = "done" /\ resp[w] = [code |-> 200, ok |-> TRUE])
                    => leads[lead[w].id].systemeio_error = result[w].err

\* C17: the three sync columns of every row agree: the flag is set exactly
\* when the status is a delivered HTTP status and the detail is empty, and
\* clear exactly when the status is skipped, error or not yet set.
C17_SyncFieldsAgree ==
    \A i \in DOMAIN leads :
        LET r == leads[i]
            delivered == /\ r.systemeio_status /= <<>>
                         /\ r.systemeio_status[1] = "HTTP"
                         /\ r.systemeio_error = <<>>
            undelivered == \/ r.systemeio_status = <<>>
                           \/ r.systemeio_status = <<"skipped">>
                           \/ r.systemeio_status = <<"error">>
        IN  /\ r.pushed_to_systemeio <=> delivered
            /\ ~r.pushed_to_systemeio <=> undelivered

\* C18: a row enters the table with no sync result (flag clear, status and
\* detail unset); a request that has answered ok:true finds a sync status
\* written on its row; and every request that passed validation reaches its
\* response.
C18_EndsWithSyncResult ==
    /\ [][\A i \in DOMAIN leads' :
            i \notin DOMAIN leads
               => /\ ~leads'[i].pushed_to_systemeio
                  /\ leads'[i].systemeio_status = <<>>
                  /\ leads'[i].systemeio_error = <<>>]_vars
    /\ [](\A w \in Workers :
            (pc[w] = "done" /\ resp[w] = [code |-> 200, ok |-> TRUE])
               => /\ leads[lead[w].id].systemeio_status /= <<>>
                  /\ leads[lead[w].id].systemeio_status[1]
                        \in {"HTTP", "skipped", "error"})
    /\ \A w \in Workers :
          (pc[w] \in {"insert", "reread", "post", "commit"}) ~> (pc[w] = "done")

\* A request that created its Lead answered ok:true after three failed
\* attempts, and the row reads error.
C18_Witness ==
    \E w \in Workers :
        /\ pc[w] = "done"
        /\ resp[w] = [code |-> 200, ok |-> TRUE]
        /\ created[w]
        /\ Len(seen[w]) = 3
        /\ leads[lead[w].id].systemeio_status = <<"error">>

\* What a push returns, from the configuration c and the results q of its own
\* calls alone.
Outcome(c, q) ==
    IF c.token = "" \/ c.tag_id = ""
    THEN [ok |-> FALSE, status |-> <<"skipped">>,
          err |-> <<"SYSTEMEIO_TOKEN/TAG_ID manquants">>]
    ELSE IF IsDelivery(q[Len(q)])
    THEN [ok |-> TRUE, status |-> <<"HTTP", q[Len(q)].status_code>>, err |-> <<>>]
    ELSE [ok |-> FALSE, status |-> <<"error">>, err |-> DetailOf(q[Len(q)])]

\* The push state of worker w.
PushState(w) == <<attempt[w], last_error[w], seen[w], sleeps[w], result[w]>>

\* C19: the result of a push is a function of the configuration and of the
\* results of its own calls; its attempt number counts its own calls only; it
\* returns a failure only after three calls of its own; and a step of one
\* request's push leaves the push state of every other request as it was.
C19_PushIndependent ==
    /\ [](\A w \in Workers :
            /\ Len(seen[w]) <= 3
            /\ pc[w] = "post" => attempt[w] = Len(seen[w]) + 1
            /\ result[w] /= <<>>
                  => /\ result[w] = Outcome(cfg, seen[w])
                     /\ ~result[w].ok /\ seen[w] /= <<>> => Len(seen[w]) = 3)
    /\ [][\A w, v \in Workers :
            (w /= v /\ PushState(w)' /= PushState(w))
               => PushState(v)' = PushState(v)]_vars

\* Two pushes ran at the same time: one failed three times, the other was
\* delivered at its third attempt.
C19_Witness ==
    \E w, v \in Workers :
        /\ w /= v
        /\ pc[w] = "commit" /\ pc[v] = "commit"
        /\ Len(seen[w]) = 3 /\ ~result[w].ok
        /\ Len(seen[v]) = 3 /\ result[v].ok

====
